---- MODULE Spec2Model ----
(***************************************************************************)
(* Folders synchronization (src/main.py): a one-way mirror of a source     *)
(* tree into a destination tree, repeated `amount` times with a sleep of   *)
(* `interval` seconds after every cycle.                                   *)
(*                                                                         *)
(* A path is the sequence of its components, as pathlib's PurePath.parts   *)
(* gives them (an absolute path starts with the anchor "/").  The          *)
(* filesystem is a function from the paths that exist to what is there:    *)
(* DIR for a directory, the content for a regular file.                    *)
(***************************************************************************)
EXTENDS Integers, Sequences, FiniteSets, TLC

VARIABLES
    fs,         \* the filesystem: path -> DIR or a file's content
    srcRoot,    \* args.source, as parts
    dstRoot,    \* args.destination, as parts
    amount,     \* args.amount
    interval,   \* args.interval
    deny,       \* paths on which remove, rmdir, makedirs and copy raise PermissionError
    copyFault,  \* copy targets on which shutil.copy raises partway, and how far it got
    sched,      \* main's position: "Idle", "Running", "Sleeping", "Stopped"
    started,    \* calls of perform_synchronization begun
    done,       \* calls of perform_synchronization returned
    failed,     \* main logged "Synchronization failed - stopping"
    phase,      \* position in perform_synchronization: 0 idle, 1 first pass, 2 second pass
    stack,      \* the live calls of synchronize_destination_folder: [dir, todo]
    todo,       \* the items process_source_items has still to visit
    trace,      \* the filesystem calls and logged errors of the current cycle
    fs0,        \* history: the filesystem as main found it
    fsStart,    \* history: the filesystem when the current cycle began
    hurt,       \* history: the relative paths whose action failed by a fault in this cycle
    healedAt    \* history: the cycles run when the faults went away, 0 while they last

vars == <<fs, srcRoot, dstRoot, amount, interval, deny, copyFault,
                   copyFault, sched, started,
          done, failed, phase, stack, todo, trace, fs0, fsStart, hurt, healedAt>>

(***************************************************************************)
(* Bounds of the model.                                                    *)
(***************************************************************************)
MaxEntries == 2
MaxAmount == 2
\* the entries of each tree in the specifications whose root shapes, faults or
\* other processes multiply the runs
MaxEntriesSmall == 1

Names == {"a", "b"}
Contents == {"hi", "old"}
\* args.interval: time.sleep raises ValueError on a negative number and
\* returns on any other; the model has no clock, so 0 stands for the others
Intervals == {-1, 0}
DIR == "dir"

(***************************************************************************)
(* Paths.                                                                  *)
(***************************************************************************)
Parent(p) == SubSeq(p, 1, Len(p) - 1)

Name(p) == p[Len(p)]

IsPrefix(r, p) == Len(r) <= Len(p) /\ SubSeq(p, 1, Len(r)) = r

Prefixes(p) == {SubSeq(p, 1, n) : n \in 1..Len(p)}

\* the path of p relative to root, as parts
RelTo(p, root) == SubSeq(p, Len(root) + 1, Len(p))

\* source_path = list(parts); source_path[0] = folder; Path(*source_path)
ReplaceFirst(parts, folder) == folder \o Tail(parts)

(***************************************************************************)
(* The os / os.path / shutil / hashlib calls the program makes.  Each      *)
(* mutating call returns [fs, ok]: the filesystem after it and whether it  *)
(* returned (TRUE) or raised an OSError (FALSE).                           *)
(***************************************************************************)
Exists(f, p) == p \in DOMAIN f

IsFile(f, p) == p \in DOMAIN f /\ f[p] # DIR

IsDir(f, p) == p \in DOMAIN f /\ f[p] = DIR

Listdir(f, p) == {q \in DOMAIN f : Len(q) = Len(p) + 1 /\ IsPrefix(p, q)}

Descendants(f, p) == {q \in DOMAIN f : Len(q) > Len(p) /\ IsPrefix(p, q)}

Without(f, S) == [q \in DOMAIN f \ S |-> f[q]]

\* what a copy that fails while writing leaves of a content: its first byte
Cut == [c \in Contents |-> IF c = "hi" THEN "h" ELSE "o"]

\* the contents a file can have: those of the initial trees, and what a copy
\* that failed partway left (nothing, or the first byte)
AllContents == Contents \cup {""} \cup {Cut[c] : c \in Contents}

\* hashlib.sha256(content).hexdigest(), its first 16 digits
Digest ==
    [c \in AllContents |->
        CASE c = "hi" -> "8f434346648f6b96"
          [] c = "old" -> "cba06b5736faf67e"
          [] c = "" -> "e3b0c44298fc1c14"
          [] c = "h" -> "aaa9402664f1a41f"
          [] OTHER -> "65c74c15a686187b"]

OsRemove(f, p, dn) ==
    IF IsFile(f, p) /\ p \notin dn
    THEN [fs |-> Without(f, {p}), ok |-> TRUE]
    ELSE [fs |-> f, ok |-> FALSE]

OsRmdir(f, p, dn) ==
    IF IsDir(f, p) /\ Listdir(f, p) = {} /\ p \notin dn
    THEN [fs |-> Without(f, {p}), ok |-> TRUE]
    ELSE [fs |-> f, ok |-> FALSE]

\* os.makedirs(p): mkdir of p's missing ancestors, outermost first, then of
\* p; raises when p exists, when the nearest existing ancestor is no
\* directory, or at the first mkdir that is denied (the directories made
\* before it stay)
OsMakedirs(f, p, dn) ==
    LET missing == {q \in Prefixes(p) : q \notin DOMAIN f}
        blocked == \E q \in Prefixes(p) : IsFile(f, q)
        made == {q \in missing : \A r \in missing \cap dn : Len(q) < Len(r)}
    IN IF p \in DOMAIN f \/ blocked
       THEN [fs |-> f, ok |-> FALSE]
       ELSE [fs |-> [q \in made |-> DIR] @@ f, ok |-> made = missing]

\* shutil.copy(src, dst): into dst/basename(src) when dst is a directory,
\* else onto dst itself
CopyTarget(f, item, dst) == IF IsDir(f, dst) THEN dst \o <<Name(item)>> ELSE dst

\* copyfile opens the source, opens the target for writing (which creates or
\* empties it) and writes the content; cf[target] says where a faulty copy
\* raises: "open" before the target is opened, "empty" before the first byte
\* is written, "cut" after the first byte
CopyFaults == {"open", "empty", "cut"}

ShutilCopy(f, item, dst, dn, cf) ==
    LET target == CopyTarget(f, item, dst)
    IN IF /\ IsFile(f, item)
          /\ ~IsDir(f, target)
          /\ (Len(target) > 1 => IsDir(f, Parent(target)))
          /\ target \notin dn
       THEN IF target \notin DOMAIN cf
            THEN [fs |-> (target :> f[item]) @@ f, ok |-> TRUE]
            ELSE IF cf[target] = "open"
                 THEN [fs |-> f, ok |-> FALSE]
                 ELSE IF cf[target] = "empty" \/ f[item] \notin Contents
                      THEN [fs |-> (target :> "") @@ f, ok |-> FALSE]
                      ELSE [fs |-> (target :> Cut[f[item]]) @@ f, ok |-> FALSE]
       ELSE [fs |-> f, ok |-> FALSE]

(***************************************************************************)
(* The program's functions.  Each returns the filesystem it leaves and the *)
(* events of the call: the os/shutil calls that returned, and the errors   *)
(* the function logged.                                                    *)
(***************************************************************************)
Ev(op, p, by) == [op |-> op, path |-> p, by |-> by]

\* get_hash(file_path): the hex digest of the file's bytes; an OSError when
\* the path is no regular file
GetHashOk(f, p) == IsFile(f, p)

GetHash(f, p) == Digest[f[p]]

\* synchronize_destination_folder, lines 103-104: the source path of a
\* destination item
SourcePathOf(item, source_folder) == ReplaceFirst(item, source_folder)

\* the rewrite below with the destination folder appended to the parts
\* instead of put in the place of the first
DestPathOfAppended(parts, dest_folder) == parts \o dest_folder

\* process_file, lines 125-128, and process_empty_folder, lines 150-152: the
\* destination path of a source path
DestPathOf(parts, dest_folder) == ReplaceFirst(parts, dest_folder)

\* the test below with its `not` lost
NothingAtInverted(f, sp) == Exists(f, sp)

\* synchronize_destination_folder, lines 106 and 111: nothing exists at the
\* source path
NothingAt(f, sp) == ~Exists(f, sp)

\* synchronize_destination_folder, one iteration of the loop over
\* iterdir(dest_folder): [fs, ev, push, abort].  push: the iteration calls
\* itself on item; abort: the iteration raised, so the except clause of this
\* call logs the error and the call returns without visiting the rest.
\* The tests of lines 105-111 read the filesystem f; os.remove and os.rmdir
\* act on g, which is f unless another process changed it after the tests.
SyncVisitRaced(f, g, item, dest_folder, source_folder, dn) ==
    LET sp == SourcePathOf(item, source_folder)
        stay == [fs |-> g, ev |-> <<>>, push |-> FALSE, abort |-> FALSE]
        raised == [fs |-> g, ev |-> <<Ev("error", dest_folder, "orphan")>>,
                   push |-> FALSE, abort |-> TRUE]
    IN IF IsFile(f, item)
       THEN IF NothingAt(f, sp)
            THEN LET r == OsRemove(g, item, dn)
                 IN IF r.ok
                    THEN [stay EXCEPT !.fs = r.fs,
                                      !.ev = <<Ev("remove", item, "orphan")>>]
                    ELSE raised
            ELSE stay
       ELSE IF ~IsDir(f, item)
            THEN raised
            ELSE IF Listdir(f, item) = {}
                 THEN IF NothingAt(f, sp)
                      THEN LET r == OsRmdir(g, item, dn)
                           IN IF r.ok
                              THEN [stay EXCEPT !.fs = r.fs,
                                                !.ev = <<Ev("rmdir", item, "orphan")>>]
                              ELSE raised
                      ELSE stay
                 ELSE [stay EXCEPT !.push = TRUE]

\* the iteration with no other process in between
SyncVisit(f, item, dest_folder, source_folder, dn) ==
    SyncVisitRaced(f, f, item, dest_folder, source_folder, dn)

\* synchronize_destination_folder, entry: pathlib's iterdir lists the
\* directory before the first item is visited; [frames, ev]
SyncEnter(f, dest_folder) ==
    IF IsDir(f, dest_folder)
    THEN [frames |-> <<[dir |-> dest_folder, todo |-> Listdir(f, dest_folder)]>>,
          ev |-> <<>>]
    ELSE [frames |-> <<>>, ev |-> <<Ev("error", dest_folder, "orphan")>>]

\* the test below with the comparison lost: every existing file is updated
HashesDifferAlways(f, item, full_dest_path) == TRUE

\* process_file, line 139: the update test
HashesDiffer(f, item, full_dest_path) == GetHash(f, item) # GetHash(f, full_dest_path)

\* process_file: [fs, ev]
ProcessFile(f, item, dest_folder, dn, cf) ==
    LET dest_path == DestPathOf(Parent(item), dest_folder)
        full_dest_path == dest_path \o <<Name(item)>>
        raised(g, ev) == [fs |-> g, ev |-> ev \o <<Ev("error", item, "forward")>>]
    IN IF ~GetHashOk(f, item)
       THEN raised(f, <<>>)
       ELSE LET mk == IF ~Exists(f, dest_path)
                      THEN OsMakedirs(f, dest_path, dn)
                      ELSE [fs |-> f, ok |-> TRUE]
                mkev == IF ~Exists(f, dest_path)
                        THEN <<Ev("makedirs", dest_path, "forward")>>
                        ELSE <<>>
            IN IF ~mk.ok
               THEN raised(mk.fs, <<>>)
               ELSE IF ~Exists(mk.fs, full_dest_path)
                    THEN LET cp == ShutilCopy(mk.fs, item, dest_path, dn, cf)
                         IN IF cp.ok
                            THEN [fs |-> cp.fs,
                                  ev |-> mkev \o <<Ev("copy", CopyTarget(mk.fs, item, dest_path), "forward")>>]
                            ELSE raised(cp.fs, mkev)
                    ELSE IF ~GetHashOk(mk.fs, full_dest_path)
                         THEN raised(mk.fs, mkev)
                         ELSE IF HashesDiffer(mk.fs, item, full_dest_path)
                              THEN LET rm == OsRemove(mk.fs, full_dest_path, dn)
                                       cp == ShutilCopy(rm.fs, item, dest_path, dn, cf)
                                       rmev == mkev \o <<Ev("remove", full_dest_path, "forward")>>
                                   IN IF ~rm.ok
                                      THEN raised(mk.fs, mkev)
                                      ELSE IF cp.ok
                                           THEN [fs |-> cp.fs,
                                                 ev |-> rmev \o <<Ev("copy", CopyTarget(rm.fs, item, dest_path), "forward")>>]
                                           ELSE raised(cp.fs, rmev)
                              ELSE [fs |-> mk.fs, ev |-> mkev]

\* process_empty_folder: [fs, ev]
ProcessEmptyFolder(f, item, dest_folder, dn) ==
    LET dest_path == DestPathOf(item, dest_folder)
    IN IF ~Exists(f, dest_path)
       THEN LET mk == OsMakedirs(f, dest_path, dn)
            IN IF mk.ok
               THEN [fs |-> mk.fs, ev |-> <<Ev("makedirs", dest_path, "forward")>>]
               ELSE [fs |-> mk.fs, ev |-> <<Ev("error", item, "forward")>>]
       ELSE [fs |-> f, ev |-> <<>>]

\* process_source_items, the items of rglob("*"): every descendant of the
\* source folder; none when the folder is no directory
SourceItems(f, source_folder) ==
    IF IsDir(f, source_folder) THEN Descendants(f, source_folder) ELSE {}

\* process_source_items, one iteration: [fs, ev]
SourceVisit(f, item, dest_folder, dn, cf) ==
    IF IsFile(f, item)
    THEN ProcessFile(f, item, dest_folder, dn, cf)
    ELSE IF ~IsDir(f, item)
         THEN [fs |-> f, ev |-> <<Ev("error", item, "forward")>>]
         ELSE IF Listdir(f, item) = {}
              THEN ProcessEmptyFolder(f, item, dest_folder, dn)
              ELSE [fs |-> f, ev |-> <<>>]

\* the two calls below in the other order
PassOrderSwapped == <<"forward", "orphan">>

\* perform_synchronization, lines 177-178: the two passes in call order
PassOrder == <<"orphan", "forward">>

\* the entry of one pass: [stack, todo, ev]
BeginPass(kind, f, source_folder, dest_folder) ==
    IF kind = "orphan"
    THEN LET e == SyncEnter(f, dest_folder)
         IN [stack |-> e.frames, todo |-> {}, ev |-> e.ev]
    ELSE [stack |-> <<>>, todo |-> SourceItems(f, source_folder), ev |-> <<>>]

(***************************************************************************)
(* The initial states: main's arguments and the two trees it finds.        *)
(***************************************************************************)
\* the trees of at most n entries below a root, as functions from relative
\* paths; an entry is added below the root or below a directory of the tree
TreeGrow(t) ==
    LET dirs == {<<>>} \cup {p \in DOMAIN t : t[p] = DIR}
        free == {d \o <<n>> : d \in dirs, n \in Names} \ DOMAIN t
    IN {(p :> v) @@ t : p \in free, v \in Contents \cup {DIR}}

RECURSIVE TreesUpTo(_)
TreesUpTo(n) ==
    IF n = 0
    THEN {<<>>}
    ELSE LET T == TreesUpTo(n - 1) IN T \cup UNION {TreeGrow(t) : t \in T}

\* the tree t below the directory root, with root's ancestors
Mount(root, t) ==
    [p \in Prefixes(root) \cup {root \o q : q \in DOMAIN t} |->
        IF Len(p) <= Len(root) THEN DIR ELSE t[SubSeq(p, Len(root) + 1, Len(p))]]

\* dir_path accepts any existing directory: one relative component, several
\* components, or an absolute path
SimpleRoots == {<<<<"s">>, <<"d">>>>}
AllRoots ==
    SimpleRoots \cup {<<<<"x", "s">>, <<"x", "d">>>>, <<<<"/", "s">>, <<"/", "d">>>>}

\* the trees have at most n entries each.  No fault, or one: a destination
\* path on which the calls are denied (faults), or a copy target on which
\* shutil.copy raises partway (copyFaults)
InitTrees(roots, n, faults, copyFaults, amounts, intervals) ==
    /\ \E r \in roots : srcRoot = r[1] /\ dstRoot = r[2]
    /\ \E ts \in TreesUpTo(n), td \in TreesUpTo(n) :
          /\ fs = Mount(srcRoot, ts) @@ Mount(dstRoot, td)
          /\ \E fault \in {<<{}, <<>>>>}
                    \cup (IF faults
                          THEN {<<{dstRoot \o q}, <<>>>> : q \in DOMAIN ts \cup DOMAIN td}
                          ELSE {})
                    \cup (IF copyFaults
                          THEN {<<{}, (dstRoot \o q) :> k>> :
                                   q \in DOMAIN ts, k \in CopyFaults}
                          ELSE {}) :
                /\ deny = fault[1]
                /\ copyFault = fault[2]
    /\ amount \in amounts
    /\ interval \in intervals
    /\ sched = "Idle"
    /\ started = 0
    /\ done = 0
    /\ failed = FALSE
    /\ phase = 0
    /\ stack = <<>>
    /\ todo = {}
    /\ trace = <<>>
    /\ fs0 = fs
    /\ fsStart = fs
    /\ hurt = {}
    /\ healedAt = 0

InitFaulty(roots, faults, copyFaults, amounts, intervals) ==
    InitTrees(roots, MaxEntries, faults, copyFaults, amounts, intervals)

InitWith(roots, faults, amounts, intervals) ==
    InitFaulty(roots, faults, FALSE, amounts, intervals)

Init == InitWith(SimpleRoots, FALSE, 0..MaxAmount, Intervals)

(***************************************************************************)
(* main and perform_synchronization, step by step.                         *)
(***************************************************************************)
HasError(ev) == \E i \in DOMAIN ev : ev[i].op = "error"

\* the handlers below with the one of synchronize_destination_folder lost
HandledForwardOnly(by) == by = "forward"

\* lines 117, 143, 157 and 169: each pass catches the OSError (PermissionError
\* and every other subclass) that a call of its own raises
HandledInPass(by) == by \in {"orphan", "forward"}

\* an error no pass handled: perform_synchronization logs it and raises it
\* again (lines 179-181), and main logs the failure and leaves the loop
\* (lines 201-203)
Escaped(ev) == \E i \in DOMAIN ev : ev[i].op = "error" /\ ~HandledInPass(ev[i].by)

\* main's position after a step of a pass that logged the events ev
MainAfter(ev) ==
    /\ sched' = IF Escaped(ev) THEN "Stopped" ELSE "Running"
    /\ failed' = (failed \/ Escaped(ev))

BeginCycle ==
    LET b == BeginPass(PassOrder[1], fs, srcRoot, dstRoot)
    IN /\ MainAfter(b.ev)
       /\ started' = started + 1
       /\ phase' = 1
       /\ stack' = b.stack
       /\ todo' = b.todo
       /\ trace' = b.ev
       /\ fsStart' = fs
       /\ hurt' = IF healedAt = 0 THEN {} ELSE hurt
       /\ UNCHANGED <<fs, srcRoot, dstRoot, amount, interval, deny, copyFault,
                      done, fs0, healedAt>>

Halt(fail) ==
    /\ sched' = "Stopped"
    /\ failed' = fail
    /\ UNCHANGED <<fs, srcRoot, dstRoot, amount, interval, deny, copyFault,
                   started, done, phase, stack, todo, trace, fs0, fsStart,
                   hurt, healedAt>>

\* the test below off by one: range(amount + 1)
LoopContinuesOnceMore == started <= amount

\* main, line 196: range(amount) has another element
LoopContinues == started < amount

\* main, line 196: the first iteration of the loop
Start ==
    /\ sched = "Idle"
    /\ LoopContinues
    /\ BeginCycle

\* main, line 196: range(amount) is empty
StopEmpty ==
    /\ sched = "Idle"
    /\ ~LoopContinues
    /\ Halt(FALSE)

\* synchronize_destination_folder: the next item of the innermost call
SyncStep ==
    /\ sched = "Running"
    /\ stack # <<>>
    /\ LET top == stack[Len(stack)]
           below == SubSeq(stack, 1, Len(stack) - 1)
       IN \E item \in top.todo :
            LET r == SyncVisit(fs, item, top.dir, srcRoot, deny)
                r0 == SyncVisit(fs, item, top.dir, srcRoot, {})
                rest == [top EXCEPT !.todo = top.todo \ {item}]
            IN /\ fs' = r.fs
               /\ trace' = trace \o r.ev
               /\ MainAfter(r.ev)
               /\ hurt' = IF r.abort /\ ~r0.abort
                          THEN hurt \cup {RelTo(item, dstRoot)}
                          ELSE hurt
               /\ stack' = IF r.abort
                           THEN below
                           ELSE IF r.push
                                THEN below \o <<rest>> \o SyncEnter(fs, item).frames
                                ELSE below \o <<rest>>
    /\ UNCHANGED <<srcRoot, dstRoot, amount, interval, deny, copyFault,
                   started, done, phase, todo, fs0, fsStart, healedAt>>

\* synchronize_destination_folder: the loop of the innermost call is over
SyncReturn ==
    /\ sched = "Running"
    /\ stack # <<>>
    /\ stack[Len(stack)].todo = {}
    /\ stack' = SubSeq(stack, 1, Len(stack) - 1)
    /\ UNCHANGED <<fs, srcRoot, dstRoot, amount, interval, deny, copyFault,
                   sched, started, done, failed, phase, todo, trace, fs0,
                   fsStart, hurt, healedAt>>

\* process_source_items: the next item of rglob
SourceStep ==
    /\ sched = "Running"
    /\ \E item \in todo :
         LET r == SourceVisit(fs, item, dstRoot, deny, copyFault)
             r0 == SourceVisit(fs, item, dstRoot, {}, <<>>)
         IN /\ fs' = r.fs
            /\ trace' = trace \o r.ev
            /\ MainAfter(r.ev)
            /\ todo' = todo \ {item}
            /\ hurt' = IF HasError(r.ev) /\ ~HasError(r0.ev)
                       THEN hurt \cup {RelTo(item, srcRoot)}
                       ELSE hurt
    /\ UNCHANGED <<srcRoot, dstRoot, amount, interval, deny, copyFault,
                   started, done, phase, stack, fs0, fsStart, healedAt>>

\* perform_synchronization, line 178: the first pass returned
NextPass ==
    /\ sched = "Running"
    /\ phase = 1
    /\ stack = <<>>
    /\ todo = {}
    /\ LET b == BeginPass(PassOrder[2], fs, srcRoot, dstRoot)
       IN /\ stack' = b.stack
          /\ todo' = b.todo
          /\ trace' = trace \o b.ev
          /\ MainAfter(b.ev)
    /\ phase' = 2
    /\ UNCHANGED <<fs, srcRoot, dstRoot, amount, interval, deny, copyFault,
                   started, done, fs0, fsStart, hurt, healedAt>>

\* main, lines 198-200: perform_synchronization returned; time.sleep is entered
EndCycle ==
    /\ sched = "Running"
    /\ phase = 2
    /\ stack = <<>>
    /\ todo = {}
    /\ sched' = "Sleeping"
    /\ done' = done + 1
    /\ phase' = 0
    /\ UNCHANGED <<fs, srcRoot, dstRoot, amount, interval, deny, copyFault,
                   started, failed, stack, todo, trace, fs0, fsStart, hurt,
                   healedAt>>

\* main, lines 200 and 196: time.sleep returned and the loop goes on
WakeNext ==
    /\ sched = "Sleeping"
    /\ interval >= 0
    /\ LoopContinues
    /\ BeginCycle

\* main, lines 200 and 196: time.sleep returned and the loop is over
WakeStop ==
    /\ sched = "Sleeping"
    /\ interval >= 0
    /\ ~LoopContinues
    /\ Halt(FALSE)

\* main, lines 200-203: time.sleep raises ValueError on a negative interval
SleepFails ==
    /\ sched = "Sleeping"
    /\ interval < 0
    /\ Halt(TRUE)

Next ==
    \/ Start
    \/ StopEmpty
    \/ SyncStep
    \/ SyncReturn
    \/ SourceStep
    \/ NextPass
    \/ EndCycle
    \/ WakeNext
    \/ WakeStop
    \/ SleepFails

Spec == Init /\ [][Next]_vars

(***************************************************************************)
(* The same program with roots of every shape dir_path accepts.            *)
(***************************************************************************)
InitRoots == InitWith(AllRoots, FALSE, 0..MaxAmount, Intervals)

SpecRoots == InitRoots /\ [][Next]_vars

\* the same with small trees
InitRootsSmall == InitTrees(AllRoots, MaxEntriesSmall, FALSE, FALSE, 0..MaxAmount, Intervals)

SpecRootsSmall == InitRootsSmall /\ [][Next]_vars

(***************************************************************************)
(* The same program while another process removes a root between cycles.   *)
(***************************************************************************)
LoseRoot ==
    /\ sched \in {"Idle", "Sleeping"}
    /\ \E r \in {srcRoot, dstRoot} :
         /\ Exists(fs, r)
         /\ fs' = Without(fs, {r} \cup Descendants(fs, r))
    /\ UNCHANGED <<srcRoot, dstRoot, amount, interval, deny, copyFault, sched,
                   started, done, failed, phase, stack, todo, trace, fs0,
                   fsStart, hurt, healedAt>>

InitRootLoss == InitWith(SimpleRoots, FALSE, 0..MaxAmount, Intervals)

NextRootLoss == Next \/ LoseRoot

SpecRootLoss == InitRootLoss /\ [][NextRootLoss]_vars

(***************************************************************************)
(* The same program with one destination path on which remove, rmdir,      *)
(* makedirs and copy raise PermissionError.                                *)
(***************************************************************************)
InitFault == InitWith(SimpleRoots, TRUE, 0..MaxAmount, Intervals)

SpecFault == InitFault /\ [][Next]_vars

(***************************************************************************)
(* The same program while another process removes a destination file that  *)
(* the orphan pass has just found to have nothing at its source path       *)
(* (lines 105-106), before the pass calls os.remove on it (line 108).      *)
(***************************************************************************)
RaceRemove ==
    /\ sched = "Running"
    /\ stack # <<>>
    /\ LET top == stack[Len(stack)]
           below == SubSeq(stack, 1, Len(stack) - 1)
       IN \E item \in top.todo :
            LET gone == Without(fs, {item})
                r == SyncVisitRaced(fs, gone, item, top.dir, srcRoot, deny)
                rest == [top EXCEPT !.todo = top.todo \ {item}]
            IN /\ IsFile(fs, item)
               /\ NothingAt(fs, SourcePathOf(item, srcRoot))
               /\ fs' = r.fs
               /\ trace' = trace \o <<Ev("gone", item, "other")>> \o r.ev
               /\ MainAfter(r.ev)
               /\ stack' = IF r.abort THEN below ELSE below \o <<rest>>
    /\ UNCHANGED <<srcRoot, dstRoot, amount, interval, deny, copyFault,
                   started, done, phase, todo, fs0, fsStart, hurt, healedAt>>

InitRace == InitWith(SimpleRoots, FALSE, 0..MaxAmount, Intervals)

NextRace == Next \/ RaceRemove

SpecRace == InitRace /\ [][NextRace]_vars

(***************************************************************************)
(* The same program with every per-action error at hand: one denied path   *)
(* or one failing copy, and another process that removes an orphaned file  *)
(* before os.remove, or puts a file into an empty orphaned directory after *)
(* os.listdir found it empty (line 110) and before os.rmdir (line 113).    *)
(***************************************************************************)
RaceFill ==
    /\ sched = "Running"
    /\ stack # <<>>
    /\ LET top == stack[Len(stack)]
           below == SubSeq(stack, 1, Len(stack) - 1)
       IN \E item \in top.todo, n \in Names, c \in Contents :
            LET filled == ((item \o <<n>>) :> c) @@ fs
                r == SyncVisitRaced(fs, filled, item, top.dir, srcRoot, deny)
                rest == [top EXCEPT !.todo = top.todo \ {item}]
            IN /\ IsDir(fs, item)
               /\ Listdir(fs, item) = {}
               /\ NothingAt(fs, SourcePathOf(item, srcRoot))
               /\ fs' = r.fs
               /\ trace' = trace \o <<Ev("filled", item, "other")>> \o r.ev
               /\ MainAfter(r.ev)
               /\ stack' = IF r.abort THEN below ELSE below \o <<rest>>
    /\ UNCHANGED <<srcRoot, dstRoot, amount, interval, deny, copyFault,
                   started, done, phase, todo, fs0, fsStart, hurt, healedAt>>

InitHostile ==
    InitTrees(SimpleRoots, MaxEntriesSmall, TRUE, TRUE, 0..MaxAmount, Intervals)

NextHostile == Next \/ RaceRemove \/ RaceFill

SpecHostile == InitHostile /\ [][NextHostile]_vars

(***************************************************************************)
(* The same program with one denied path or one failing copy whose cause   *)
(* goes away during a sleep.                                               *)
(***************************************************************************)
Heal ==
    /\ sched = "Sleeping"
    /\ healedAt = 0
    /\ deny # {} \/ copyFault # <<>>
    /\ deny' = {}
    /\ copyFault' = <<>>
    /\ healedAt' = done
    /\ UNCHANGED <<fs, srcRoot, dstRoot, amount, interval, sched, started, done,
                   failed, phase, stack, todo, trace, fs0, fsStart, hurt>>

InitHeal == InitFaulty(SimpleRoots, TRUE, TRUE, 0..MaxAmount, Intervals)

NextHeal == Next \/ Heal

SpecHeal == InitHeal /\ [][NextHeal]_vars

(***************************************************************************)
(* The same program with one copy target on which shutil.copy raises       *)
(* partway (no space left, an I/O error, the source gone in between).      *)
(***************************************************************************)
InitCopyFault == InitFaulty(SimpleRoots, FALSE, TRUE, 0..MaxAmount, Intervals)

SpecCopyFault == InitCopyFault /\ [][Next]_vars

(***************************************************************************)
(* What the properties speak of.                                           *)
(***************************************************************************)
\* the tree below root, by relative path
Tree(f, root) ==
    [q \in {RelTo(p, root) : p \in Descendants(f, root)} |-> f[root \o q]]

FilesOf(t) == [q \in {x \in DOMAIN t : t[x] # DIR} |-> t[q]]

DirsOf(t) == {q \in DOMAIN t : t[q] = DIR}

\* same relative paths of regular files, same content at each
FilesConverged(f) == FilesOf(Tree(f, srcRoot)) = FilesOf(Tree(f, dstRoot))

\* same files and same directories
Mirrored(f) == Tree(f, srcRoot) = Tree(f, dstRoot)

IsAction(e) == e.op \in {"remove", "rmdir", "makedirs", "copy"}

NoActions(tr) == \A i \in DOMAIN tr : ~IsAction(tr[i])

\* at least one cycle has run and none is running
CycleOver == started >= 1 /\ sched # "Running"

SetMax(S) == CHOOSE m \in S : \A x \in S : x <= m

\* the longest chain of entries below p
RECURSIVE Height(_, _)
Height(f, p) ==
    IF Listdir(f, p) = {}
    THEN 0
    ELSE 1 + SetMax({Height(f, c) : c \in Listdir(f, p)})

\* the destination directories main found that have nothing at their source
\* path, and everything below them
OrphanDirs0 ==
    {p \in Descendants(fs0, dstRoot) :
        IsDir(fs0, p) /\ ~Exists(fs0, srcRoot \o RelTo(p, dstRoot))}

\* p was, when main began, such a directory or an entry below one
InOrphanDir0(p) ==
    /\ Exists(fs0, p)
    /\ \E r \in Prefixes(p) :
          /\ Len(r) > Len(dstRoot)
          /\ IsPrefix(dstRoot, r)
          /\ IsDir(fs0, r)
          /\ ~Exists(fs0, srcRoot \o RelTo(r, dstRoot))

(***************************************************************************)
(* C1.  Convergence: when a cycle is over (no other process has touched    *)
(* the trees and no call has failed), the destination holds regular files  *)
(* at exactly the relative paths where the source holds them, each with    *)
(* the source file's content.                                              *)
(***************************************************************************)
C1_Convergence == CycleOver => FilesConverged(fs)

(***************************************************************************)
(* C2.  Path correspondence: for roots of any number of components, the    *)
(* source path looked up for a destination item is the source root joined  *)
(* with the item's path relative to the destination root, and the          *)
(* destination path computed for a source item is the destination root     *)
(* joined with the item's path relative to the source root.                *)
(***************************************************************************)
C2_PathCorrespondence ==
    /\ stack # <<>> =>
          \A item \in stack[Len(stack)].todo :
              SourcePathOf(item, srcRoot) = srcRoot \o RelTo(item, dstRoot)
    /\ \A item \in todo :
          /\ DestPathOf(item, dstRoot) = dstRoot \o RelTo(item, srcRoot)
          /\ DestPathOf(Parent(item), dstRoot) \o <<Name(item)>>
                = dstRoot \o RelTo(item, srcRoot)

C4_FailFast ==
    (CycleOver /\ (~IsDir(fsStart, srcRoot) \/ ~IsDir(fsStart, dstRoot)))
        => (failed /\ sched = "Stopped")

(***************************************************************************)
(* C5.  Cycle abort leaves the destination intact: a cycle that began      *)
(* while the source root was missing makes no filesystem call that         *)
(* deletes, creates or modifies an entry.                                  *)
(***************************************************************************)
C5_AbortLeavesDestination ==
    (started >= 1 /\ ~IsDir(fsStart, srcRoot)) => NoActions(trace)

\* when a cycle is over, every orphan file it found (a file with nothing at
\* its source path) on which remove does not fail is gone
C6_OrphansStillRemoved ==
    CycleOver =>
        \A p \in Descendants(fsStart, dstRoot) :
            (/\ IsFile(fsStart, p)
             /\ ~Exists(fsStart, srcRoot \o RelTo(p, dstRoot))
             /\ p \notin deny)
                => ~Exists(fs, p)

\* when a cycle is over, every source file that had nothing at its
\* destination path, whose destination directory existed and on which copy
\* does not fail, is at its destination path with the source's content
C6_CopiesStillMade ==
    CycleOver =>
        \A p \in Descendants(fsStart, srcRoot) :
            LET t == dstRoot \o RelTo(p, srcRoot)
            IN (/\ IsFile(fsStart, p)
                /\ ~Exists(fsStart, t)
                /\ IsDir(fsStart, Parent(t))
                /\ t \notin deny)
                   => (IsFile(fs, t) /\ fs[t] = fs[p])

(***************************************************************************)
(* C6.  Per-action failure isolation: when one remove, rmdir, makedirs or  *)
(* copy of a cycle fails, every other action of the cycle whose            *)
(* precondition holds is still applied: the other orphan files are removed *)
(* (siblings of the failed entry included) and the forward pass makes its  *)
(* copies.                                                                 *)
(***************************************************************************)
C6_FailureIsolation == C6_OrphansStillRemoved /\ C6_CopiesStillMade

(***************************************************************************)
(* C7.  Orphan-before-forward ordering: within a cycle, no filesystem call *)
(* of the forward pass is followed by a filesystem call of the orphan      *)
(* pass.                                                                   *)
(***************************************************************************)
C7_OrphanBeforeForward ==
    \A i, j \in DOMAIN trace :
        (i < j /\ IsAction(trace[i]) /\ trace[i].by = "forward")
            => ~(IsAction(trace[j]) /\ trace[j].by = "orphan")

C7_Witness ==
    \E i, j \in DOMAIN trace :
        /\ i < j
        /\ IsAction(trace[i]) /\ trace[i].by = "orphan"
        /\ IsAction(trace[j]) /\ trace[j].by = "forward"

(***************************************************************************)
(* C8.  Cycle count and sequencing: never more than `amount` cycles are    *)
(* begun; a cycle is begun only when every earlier one has returned; and   *)
(* when main stops without a failure, for amount >= 1 and any interval     *)
(* (0 included), exactly `amount` cycles have run.                         *)
(***************************************************************************)
C8_CycleCount ==
    /\ started <= amount
    /\ sched = "Running" => (started = done + 1 /\ phase \in {1, 2})
    /\ sched # "Running" => (started = done /\ stack = <<>> /\ todo = {})
    /\ (sched = "Stopped" /\ ~failed /\ amount >= 1) => done = amount

C8_Witness ==
    /\ sched = "Stopped"
    /\ ~failed
    /\ interval = 0
    /\ amount = MaxAmount
    /\ done = amount

(***************************************************************************)
(* C9.  Directory mirror: when a cycle is over, every directory below the  *)
(* source root is a directory at the same relative path below the          *)
(* destination root, whatever the destination held before.                 *)
(***************************************************************************)
C9_DirectoryMirror ==
    CycleOver =>
        \A q \in DirsOf(Tree(fs, srcRoot)) : IsDir(fs, dstRoot \o q)

OrphanPassOver == (sched = "Running" /\ phase = 2) \/ CycleOver

(***************************************************************************)
(* C11.  Same-cycle emptiness re-check: a destination directory that has   *)
(* no source directory at its path and into which the orphan pass recursed *)
(* (it held entries when the cycle began) is removed by that pass when the *)
(* pass has emptied it: once the pass has returned, no such directory is   *)
(* left empty.                                                             *)
(***************************************************************************)
C11_SameCycleRecheck ==
    OrphanPassOver =>
        \A p \in Descendants(fs, dstRoot) :
            ~(/\ IsDir(fsStart, p)
              /\ Listdir(fsStart, p) # {}
              /\ ~IsDir(fsStart, srcRoot \o RelTo(p, dstRoot))
              /\ IsDir(fs, p)
              /\ Listdir(fs, p) = {})

(***************************************************************************)
(* C12.  Deletion safety: every entry a step of the orphan pass removes is *)
(* a destination entry that has nothing below it at the moment of the      *)
(* removal (so a directory is removed only when empty) and whose relative  *)
(* path does not exist below the source root.                              *)
(***************************************************************************)
C12_DeletionSafety ==
    [][(sched = "Running" /\ phase = 1) =>
          \A p \in DOMAIN fs \ DOMAIN fs' :
              /\ IsPrefix(dstRoot, p)
              /\ Listdir(fs, p) = {}
              /\ ~Exists(fs, srcRoot \o RelTo(p, dstRoot))]_vars

Has(tr, e) == \E i \in DOMAIN tr : tr[i] = e

(***************************************************************************)
(* C13.  A failed update does not lose the file: when a cycle is over in   *)
(* which process_file removed a destination file to replace it (its        *)
(* content differed from the source's) and then logged an error because    *)
(* the copy failed, the destination path holds a file with the old         *)
(* content.                                                                *)
(***************************************************************************)
C13_FailedUpdateKeepsFile ==
    CycleOver =>
        \A p \in Descendants(fsStart, srcRoot) :
            LET t == dstRoot \o RelTo(p, srcRoot)
            IN (/\ IsFile(fsStart, p)
                /\ IsFile(fsStart, t)
                /\ fsStart[t] # fsStart[p]
                /\ Has(trace, Ev("remove", t, "forward"))
                /\ Has(trace, Ev("error", p, "forward")))
                   => (IsFile(fs, t) /\ fs[t] = fsStart[t])

(***************************************************************************)
(* C14.  All-or-nothing copy: at every moment, a destination path that did *)
(* not exist when the cycle began and at which the source holds a regular  *)
(* file either does not exist or holds the whole content of the source     *)
(* file, also when the copy to it failed partway.                          *)
(***************************************************************************)
C14_AllOrNothingCopy ==
    \A p \in Descendants(fs, srcRoot) :
        LET t == dstRoot \o RelTo(p, srcRoot)
        IN (IsFile(fs, p) /\ ~Exists(fsStart, t) /\ Exists(fs, t))
              => (IsFile(fs, t) /\ fs[t] = fs[p])

(***************************************************************************)
(* C15.  Race-tolerant delete: when another process removes an orphaned    *)
(* destination file after the orphan pass found nothing at its source path *)
(* and before the pass removes it, no error is logged for it, and the pass *)
(* goes on with the other entries of that directory: once the pass has     *)
(* returned, the orphaned files that were beside it are gone too.          *)
(***************************************************************************)
C15_RaceTolerantDelete ==
    \A i \in DOMAIN trace :
        trace[i].op = "gone" =>
            /\ ~(i + 1 \in DOMAIN trace /\ trace[i + 1].op = "error")
            /\ OrphanPassOver =>
                  \A q \in Listdir(fsStart, Parent(trace[i].path)) :
                      (/\ IsFile(fsStart, q)
                       /\ ~Exists(fsStart, srcRoot \o RelTo(q, dstRoot)))
                          => ~Exists(fs, q)

(***************************************************************************)
(* C16.  The orphan rule under type mismatch: once the orphan pass has     *)
(* returned, it has removed every destination regular file that had no     *)
(* regular file at its source path (a directory there or nothing), and     *)
(* every empty destination directory that had no directory at its source   *)
(* path (a regular file there or nothing).                                 *)
(***************************************************************************)
C16_OrphanTypeRule ==
    OrphanPassOver =>
        \A p \in Descendants(fsStart, dstRoot) :
            LET sp == srcRoot \o RelTo(p, dstRoot)
            IN /\ (IsFile(fsStart, p) /\ ~IsFile(fsStart, sp))
                     => Has(trace, Ev("remove", p, "orphan"))
               /\ (IsDir(fsStart, p) /\ Listdir(fsStart, p) = {} /\ ~IsDir(fsStart, sp))
                     => Has(trace, Ev("rmdir", p, "orphan"))

\* the same rule with "nothing at the source path" for "no file" and "no
\* directory": what the pass does
C16_OrphanExistenceRule ==
    OrphanPassOver =>
        \A p \in Descendants(fsStart, dstRoot) :
            LET sp == srcRoot \o RelTo(p, dstRoot)
            IN /\ (IsFile(fsStart, p) /\ ~Exists(fsStart, sp))
                     => Has(trace, Ev("remove", p, "orphan"))
               /\ (IsDir(fsStart, p) /\ Listdir(fsStart, p) = {} /\ ~Exists(fsStart, sp))
                     => Has(trace, Ev("rmdir", p, "orphan"))

(***************************************************************************)
(* C17.  Per-action errors never stop the scheduler: whatever calls of a   *)
(* cycle fail (a denied path, a failed copy, a file gone before os.remove, *)
(* a directory filled before os.rmdir), main stops only between cycles,    *)
(* never inside one; it stops with a failure only when time.sleep raised   *)
(* (a negative interval), and without a failure only when all `amount`     *)
(* cycles have run.                                                        *)
(***************************************************************************)
C17_ErrorsNeverStop ==
    /\ sched = "Stopped" =>
          /\ started = done
          /\ failed => interval < 0
          /\ ~failed => (done = amount \/ (amount <= 0 /\ done = 0))
    /\ (sched = "Running" /\ HasError(trace)) => ~failed

C17_Witness ==
    /\ sched = "Stopped"
    /\ ~failed
    /\ amount = MaxAmount
    /\ done = amount
    /\ \E i, j \in DOMAIN trace :
          /\ trace[i].op = "error" /\ trace[i].by = "orphan"
          /\ trace[j].op = "error" /\ trace[j].by = "forward"

\* the mirror property at the relative path q: a source file is at the
\* destination with the same content, and no file is there when the source
\* has nothing at q
MirrorAt(f, q) ==
    /\ IsFile(f, srcRoot \o q) =>
          (IsFile(f, dstRoot \o q) /\ f[dstRoot \o q] = f[srcRoot \o q])
    /\ ~Exists(f, srcRoot \o q) => ~IsFile(f, dstRoot \o q)

(***************************************************************************)
(* C18.  Self-healing by periodicity: when an action on a relative path    *)
(* failed in a cycle because of a fault (a denied call, a failing copy),   *)
(* and the fault went away before the next cycle, then once that cycle is  *)
(* over the path satisfies the mirror property: a source file is at the    *)
(* destination with equal content, an orphan file is absent.               *)
(***************************************************************************)
C18_SelfHealing ==
    (CycleOver /\ healedAt >= 1 /\ done > healedAt) =>
        \A q \in hurt : MirrorAt(fs, q)

\* no relative path holds a file in one tree and a directory in the other
NoTypeClash(f) ==
    \A q \in DOMAIN Tree(f, srcRoot) \cap DOMAIN Tree(f, dstRoot) :
        IsDir(f, srcRoot \o q) <=> IsDir(f, dstRoot \o q)

\* the same for the trees main found without such a path: what holds
C18_HealsWithoutClash == NoTypeClash(fs0) => C18_SelfHealing

(***************************************************************************)
(* C19.  Sleep only between cycles: main is suspended in time.sleep only   *)
(* when another cycle is still to run, so every suspension is followed by  *)
(* the start of a cycle and the last cycle is followed by none.            *)
(***************************************************************************)
C19_SleepOnlyBetweenCycles == sched = "Sleeping" => done < amount

(***************************************************************************)
(* C20.  The source is read-only: for roots of any shape that are distinct *)
(* and not nested in one another, everything at and below the source root  *)
(* stays as main found it, and every os.remove, os.rmdir, os.makedirs and  *)
(* shutil.copy target of a cycle is the destination root or a path below   *)
(* it.                                                                     *)
(***************************************************************************)
C20_SourceReadOnly ==
    /\ \A i \in DOMAIN trace : IsAction(trace[i]) => IsPrefix(dstRoot, trace[i].path)
    /\ \A p \in DOMAIN fs \cup DOMAIN fs0 :
          IsPrefix(srcRoot, p) => (p \in DOMAIN fs /\ p \in DOMAIN fs0 /\ fs[p] = fs0[p])

C20_Witness ==
    /\ CycleOver
    /\ Len(srcRoot) > 1
    /\ Descendants(fs0, srcRoot) # {}
    /\ \E i, j \in DOMAIN trace :
          /\ trace[i].op = "remove" /\ trace[i].by = "orphan"
          /\ trace[j].op = "copy" /\ trace[j].by = "forward"

====
